---- MODULE Spec2Model ----
(***************************************************************************)
(* Model of train.py of Glow-PyTorch: the command-line entry point with    *)
(* its output-directory check, main() with the ignite trainer/evaluator    *)
(* engines and their event handlers, the learning-rate schedule, the       *)
(* training and evaluation step closures, and the energy (MMD) loss.       *)
(*                                                                         *)
(* Numbers: Python floats are modelled as exact rationals <<num, den>>     *)
(* (den > 0, lowest terms); floating-point rounding is not modelled.       *)
(* Line 224 of train.py carries a stray token `ff` after the dict literal; *)
(* the statement is modelled as the dict assignment it is written to be.   *)
(***************************************************************************)
EXTENDS Integers, Sequences, FiniteSets, TLC

VARIABLES
    \* ---- main(): trainer / evaluator engines ----
    args,           \* kwargs handed to main()
    pc,             \* position of the run inside main() / Engine.run
    err,            \* exception that ended the run, "" while none
    epoch,          \* trainer.state.epoch
    iteration,      \* trainer.state.iteration
    batch_idx,      \* batches of the current epoch already processed
    last_epoch,     \* scheduler.last_epoch
    optimizer_lr,   \* optimizer.param_groups[0]["lr"] / args.lr, a rational
    loaded,         \* [model, optimizer]: state dicts restored from files
    saved,          \* checkpoint_handler._saved: epochs of the kept files, oldest first
    files,          \* checkpoint files present in output_dir (by epoch)
    output,         \* trainer.state.output of the last training step
    eval_output,    \* evaluator.state.output of the last evaluation step
    eval_seen,      \* test samples processed by the running evaluator pass
    hist,           \* history record (counts of what has happened so far)
    \* ---- __main__: output directory check ----
    dpc,            \* position inside the __main__ block
    fresh,          \* args.fresh
    fs,             \* what is at the output_dir path now
    fs0,            \* what was there when the program started
    raised,         \* exception that left the __main__ block, "" while none
    checked,        \* what listdir/isdir saw when the check let the run through
    \* ---- compute_loss_energy ----
    lpc,            \* "call" before, "returned"/"raised" after
    x,              \* batch of real samples (sequence of coordinates)
    gen_x,          \* batch of generated samples
    sigma,          \* bandwidth list
    reduction,      \* reduction string
    loss_out        \* the returned tensor, or the exception

trainVars == <<args, pc, err, epoch, iteration, batch_idx, last_epoch, optimizer_lr,
               loaded, saved, files, output, eval_output, eval_seen, hist>>
dirVars == <<dpc, fresh, fs, fs0, raised, checked>>
lossVars == <<lpc, x, gen_x, sigma, reduction, loss_out>>
vars == <<trainVars, dirVars, lossVars>>

----------------------------------------------------------------------------
(* Bounds of the model *)

MaxEpochs == 3
MaxResume == 2
MaxTrainSize == 3
MaxBatchSize == 2
MaxInitBatches == 2
MaxTestSize == 2
MaxWarmup == 3
MaxEntries == 3
MaxBatch == 2
MaxCoord == 1

----------------------------------------------------------------------------
(* Rationals *)

RECURSIVE GCD(_, _)
GCD(a, b) == IF b = 0 THEN a ELSE GCD(b, a % b)

Abs(a) == IF a < 0 THEN -a ELSE a

\* n/d in lowest terms, d > 0
Rat(n, d) ==
    LET g == GCD(Abs(n), d) IN
    IF n = 0 THEN <<0, 1>> ELSE <<n \div g, d \div g>>

RMin(a, b) == IF a[1] * b[2] <= b[1] * a[2] THEN a ELSE b

One == <<1, 1>>

----------------------------------------------------------------------------
(* File names: --saved_model is a path, modelled as a sequence of characters *)

Digits == <<"0", "1", "2", "3", "4", "5", "6", "7", "8", "9">>

DigitVal(c) == (CHOOSE i \in 1..10 : Digits[i] = c) - 1

IsDigit(c) == \E i \in 1..10 : Digits[i] = c

\* str(n) for n >= 0, the way a checkpoint's number is written into its name
RECURSIVE IntToStr(_)
IntToStr(n) == IF n < 10 THEN <<Digits[n + 1]>>
               ELSE IntToStr(n \div 10) \o <<Digits[(n % 10) + 1]>>

\* index of the last occurrence of c in s, 0 when there is none
LastIndexOf(s, c) ==
    LET I == {i \in 1..Len(s) : s[i] = c} IN
    IF I = {} THEN 0 ELSE CHOOSE i \in I : \A j \in I : j <= i

\* os.path.splitext(p)[0]: p without its extension; the extension starts at the
\* last dot of the last path component, leading dots of that component excluded
splitext_root(p) ==
    LET sep == LastIndexOf(p, "/")
        dot == LastIndexOf(p, ".")
        lead == \A i \in (sep + 1)..(dot - 1) : p[i] = "."
    IN  IF dot > sep /\ ~lead THEN SubSeq(p, 1, dot - 1) ELSE p

\* file_name.split("_")[-1]
last_token(s) == SubSeq(s, LastIndexOf(s, "_") + 1, Len(s))

\* int(t) accepts t when it is a non-empty string of decimal digits
int_ok(t) == Len(t) > 0 /\ \A i \in 1..Len(t) : IsDigit(t[i])

RECURSIVE int_of(_)
int_of(t) == IF Len(t) = 0 THEN 0
             ELSE 10 * int_of(SubSeq(t, 1, Len(t) - 1)) + DigitVal(t[Len(t)])

resume_epoch_first_token(p) ==
    LET root == splitext_root(p)
        I == {i \in 1..Len(root) : root[i] = "_"}
        first == IF I = {} THEN Len(root) + 1 ELSE CHOOSE i \in I : \A j \in I : i <= j
        rest == SubSeq(root, first + 1, Len(root))
        J == {i \in 1..Len(rest) : rest[i] = "_"}
        stop == IF J = {} THEN Len(rest) + 1 ELSE CHOOSE i \in J : \A j \in J : i <= j
    IN  int_of(SubSeq(rest, 1, stop - 1))

\* resume_epoch = int(os.path.splitext(saved_model)[0].split("_")[-1])
resume_epoch(p) == int_of(last_token(splitext_root(p)))

resume_epoch_ok(p) == int_ok(last_token(splitext_root(p)))

\* checkpoint paths "glow_<k>_<E>.pt" with a second number k in the name
CheckpointName(k, E) ==
    <<"g", "l", "o", "w", "_">> \o IntToStr(k) \o <<"_">> \o IntToStr(E) \o <<".", "p", "t">>

\* a path whose only dot sits in a directory name: "o.d/glow_<E>"
DottedDirName(E) ==
    <<"o", ".", "d", "/", "g", "l", "o", "w", "_">> \o IntToStr(E)

\* a path with no number at its end: int() raises ValueError
BadName == <<"g", "l", "o", "w", ".", "p", "t">>

NoPath == <<>>

----------------------------------------------------------------------------
(* Learning-rate schedule *)

lr_lambda_from_zero(e, warmup) == RMin(One, Rat(e * warmup[2], warmup[1]))

\* lr_lambda = lambda epoch: min(1.0, (epoch + 1) / warmup)
lr_lambda(e, warmup) == RMin(One, Rat((e + 1) * warmup[2], warmup[1]))

----------------------------------------------------------------------------
(* Tensors are modelled by their shape and the value of their elements *)

Tensor(shape, val) == [shape |-> shape, val |-> val]

Scalar == <<>>

\* No output yet: engine.state.output is None
None == [none |-> Tensor(Scalar, 0)]

\* compute_loss_y with multi_class = False (main fixes it): cross entropy
compute_loss_y(nll, loss_classes_val, y_weight, bsz, red) ==
    LET nll_t == IF red = "mean" THEN Tensor(Scalar, nll.val) ELSE nll
        cls_t == IF red = "mean" THEN Tensor(Scalar, loss_classes_val)
                 ELSE Tensor(<<bsz>>, loss_classes_val)
    IN  [nll |-> nll_t,
         loss_classes |-> cls_t,
         total_loss |-> Tensor(nll_t.shape, nll_t.val + y_weight * cls_t.val)]

clip_enabled_nonneg(threshold) == threshold >= 0

\* `if max_grad_clip > 0:` / `if max_grad_norm > 0:`
clip_enabled(threshold) == threshold > 0

\* step(engine, batch): the operations it performs, in order, and what it returns
step(a, bsz) ==
    LET losses ==
            IF a.y_condition
            THEN compute_loss_y(Tensor(<<bsz>>, a.nll_val), a.cls_val, a.y_weight, bsz, "mean")
            ELSE [total_loss |-> Tensor(Scalar, a.energy_val),
                  loss_energy |-> Tensor(Scalar, a.energy_val)]
    IN  [trace |-> <<"model.train", "optimizer.zero_grad", "model", "loss", "backward">>
                   \o (IF clip_enabled(a.max_grad_clip) THEN <<"clip_grad_value_">> ELSE <<>>)
                   \o (IF clip_enabled(a.max_grad_norm) THEN <<"clip_grad_norm_">> ELSE <<>>)
                   \o <<"optimizer.step">>,
         out |-> losses]

eval_step_no_view(a, bsz) ==
    [trace |-> <<"model.eval", "model", "loss">>,
     out |-> IF a.y_condition
             THEN compute_loss_y(Tensor(<<bsz>>, a.nll_val), a.cls_val, a.y_weight, bsz, "none")
             ELSE [total_loss |-> Tensor(Scalar, a.energy_val),
                   loss_energy |-> Tensor(Scalar, a.energy_val)]]

\* eval_step(engine, batch), under torch.no_grad()
eval_step(a, bsz) ==
    [trace |-> <<"model.eval", "model", "loss">>,
     out |-> IF a.y_condition
             THEN compute_loss_y(Tensor(<<bsz>>, a.nll_val), a.cls_val, a.y_weight, bsz, "none")
             ELSE [total_loss |-> Tensor(<<1>>, a.energy_val),
                   loss_energy |-> Tensor(<<1>>, a.energy_val)]]

\* keys read by the RunningAverage metrics attached to the trainer
trainer_metrics(a) == {"total_loss"} \cup (IF a.y_condition THEN {"nll"} ELSE {})

\* keys read by the Loss metrics attached to the evaluator (each reads shape[0])
evaluator_metrics(a) == {"total_loss"} \cup (IF a.y_condition THEN {"nll"} ELSE {})

\* error raised while the attached metrics read a step's output, "" when none
metric_error(keys, out, needs_dim) ==
    IF \E k \in keys : k \notin DOMAIN out THEN "KeyError"
    ELSE IF needs_dim /\ \E k \in keys : Len(out[k].shape) = 0 THEN "IndexError"
    ELSE ""

----------------------------------------------------------------------------
(* main(): configuration *)

\* ModelCheckpoint(output_dir, "glow", n_saved=2, require_empty=False)
n_saved_one == 2 - 1

n_saved == 2

\* {"model": model, "optimizer": optimizer}
to_save == {"model", "optimizer"}

\* len(train_loader): DataLoader(..., batch_size, drop_last=True)
len_train_loader(a) == a.train_size \div a.batch_size

Min(i, j) == IF i <= j THEN i ELSE j

\* --warmup is a float > 0: halves and whole numbers up to MaxWarmup
Warmups == {Rat(n, 1) : n \in 1..MaxWarmup} \cup {Rat(n, 2) : n \in 1..(2 * MaxWarmup)}

SavedModels ==
    {NoPath, BadName, DottedDirName(1)}
        \cup {CheckpointName(7, E) : E \in 0..MaxResume}

DefaultArgs ==
    [epochs |-> 2, warmup |-> <<5, 1>>, y_condition |-> FALSE, y_weight |-> 1,
     max_grad_clip |-> 1, max_grad_norm |-> 1, n_init_batches |-> 1,
     batch_size |-> 1, eval_batch_size |-> 1, train_size |-> 2, test_size |-> 2,
     saved_model |-> NoPath, saved_optimizer |-> FALSE, saved_lr |-> One,
     nll_val |-> 1, cls_val |-> 1, energy_val |-> 1]

\* Runs that vary the length of the run, the data and the resume point
ArgsRun ==
    {[DefaultArgs EXCEPT !.epochs = e, !.y_condition = yc, !.n_init_batches = ni,
                         !.batch_size = bs, !.train_size = ts, !.saved_model = sm,
                         !.saved_optimizer = so]
        : e \in 1..MaxEpochs, yc \in BOOLEAN, ni \in 1..MaxInitBatches,
          bs \in 1..MaxBatchSize, ts \in 1..MaxTrainSize, sm \in SavedModels,
          so \in BOOLEAN}

\* Runs that vary the schedule and what is restored
ArgsSched ==
    {[DefaultArgs EXCEPT !.epochs = e, !.warmup = w, !.saved_model = sm,
                         !.saved_optimizer = so, !.saved_lr = sl,
                         !.test_size = te, !.eval_batch_size = eb]
        : e \in 1..MaxEpochs, w \in Warmups,
          sm \in {NoPath} \cup {CheckpointName(7, E) : E \in 0..MaxResume},
          so \in BOOLEAN, sl \in {One, <<2, 5>>},
          te \in 1..MaxTestSize, eb \in 1..2}

\* Runs that vary what a step does
ArgsStep ==
    {[DefaultArgs EXCEPT !.epochs = 1, !.y_condition = yc, !.y_weight = yw,
                         !.max_grad_clip = gc, !.max_grad_norm = gn,
                         !.nll_val = nv, !.cls_val = cv, !.energy_val = ev,
                         !.test_size = te, !.eval_batch_size = eb,
                         !.batch_size = bs, !.saved_model = sm]
        : yc \in BOOLEAN, yw \in 0..2, gc \in -1..1, gn \in -1..1,
          nv \in 0..1, cv \in 0..1, ev \in 0..1,
          te \in 1..MaxTestSize, eb \in 1..2, bs \in 1..MaxBatchSize,
          sm \in {NoPath, CheckpointName(7, 0)}}

NoHist ==
    [init_passes |-> 0, init_samples |-> 0, init_labels |-> FALSE,
     opt_steps |-> 0, backward |-> 0, train_steps |-> 0, eval_steps |-> 0,
     eval_runs |-> 0, sched_steps |-> 0, ckpt_saves |-> 0,
     epochs_run |-> <<>>, step_trace |-> <<>>, eval_trace |-> <<>>,
     first_iter |-> <<>>, lr_at_step |-> <<>>, sched_at |-> <<>>,
     opt_at_eval |-> <<>>]

\* The __main__ block has finished and the loss is not being called
DirIdle ==
    /\ dpc = "idle" /\ fresh = FALSE /\ fs = [kind |-> "dir", entries |-> {}]
    /\ fs0 = fs /\ raised = "" /\ checked = <<>>

LossIdle ==
    /\ lpc = "idle" /\ x = <<>> /\ gen_x = <<>> /\ sigma = <<>>
    /\ reduction = "mean" /\ loss_out = <<>>

\* main() is entered: nothing has been built yet
InitMain(A) ==
    /\ args \in A
    /\ pc = "main"
    /\ err = ""
    /\ epoch = 0
    /\ iteration = 0
    /\ batch_idx = 0
    /\ last_epoch = -1
    /\ optimizer_lr = One
    /\ loaded = [model |-> FALSE, optimizer |-> FALSE]
    /\ saved = <<>>
    /\ files = {}
    /\ output = None
    /\ eval_output = None
    /\ eval_seen = 0
    /\ hist = NoHist

Init == InitMain(ArgsRun) /\ DirIdle /\ LossIdle

InitSched == InitMain(ArgsSched) /\ DirIdle /\ LossIdle

InitStep == InitMain(ArgsStep) /\ DirIdle /\ LossIdle

----------------------------------------------------------------------------
(* main(): construction, lines 162-315 *)

Fail(e) == /\ pc' = "error" /\ err' = e

\* Adamax(lr), LambdaLR (which applies lr_lambda(0) at construction), then the
\* optional load_state_dict calls; optimizer.load_state_dict replaces the
\* param_groups, "lr" included, by the stored ones
main_setup ==
    /\ pc = "main"
    /\ last_epoch' = 0
    /\ IF args.saved_model # NoPath
       THEN /\ loaded' = [model |-> TRUE, optimizer |-> args.saved_optimizer]
            /\ optimizer_lr' = IF args.saved_optimizer THEN args.saved_lr
                               ELSE lr_lambda(0, args.warmup)
            /\ IF resume_epoch_ok(args.saved_model)
               THEN pc' = "started_resume" /\ err' = err
               ELSE Fail("ValueError")
       ELSE /\ loaded' = loaded
            /\ optimizer_lr' = lr_lambda(0, args.warmup)
            /\ pc' = "started_init" /\ err' = err
    /\ UNCHANGED <<args, epoch, iteration, batch_idx, saved, files, output,
                   eval_output, eval_seen, hist>>
    /\ UNCHANGED <<dirVars, lossVars>>

\* @trainer.on(Events.STARTED) resume_training
resume_training ==
    /\ pc = "started_resume"
    /\ epoch' = resume_epoch(args.saved_model)
    /\ iteration' = resume_epoch(args.saved_model) * len_train_loader(args)
    /\ pc' = "started_init"
    /\ UNCHANGED <<args, err, batch_idx, last_epoch, optimizer_lr, loaded, saved,
                   files, output, eval_output, eval_seen, hist>>
    /\ UNCHANGED <<dirVars, lossVars>>

init_no_assert ==
    /\ pc = "started_init"
    /\ LET got == Min(args.n_init_batches, len_train_loader(args)) IN
       IF got = 0
       THEN Fail("RuntimeError") /\ hist' = hist
       ELSE /\ hist' = [hist EXCEPT !.init_passes = @ + 1,
                                    !.init_samples = got * args.batch_size,
                                    !.init_labels = args.y_condition]
            /\ pc' = "epoch_loop" /\ err' = err
    /\ UNCHANGED <<args, epoch, iteration, batch_idx, last_epoch, optimizer_lr,
                   loaded, saved, files, output, eval_output, eval_seen>>
    /\ UNCHANGED <<dirVars, lossVars>>

\* @trainer.on(Events.STARTED) init: islice takes the first n_init_batches
\* batches the loader yields (fewer when it yields fewer); torch.cat of no
\* batch raises RuntimeError
init ==
    /\ pc = "started_init"
    /\ LET got == Min(args.n_init_batches, len_train_loader(args)) IN
       IF got = 0
       THEN Fail("RuntimeError") /\ hist' = hist
       ELSE IF got * args.batch_size # args.n_init_batches * args.batch_size
       THEN Fail("AssertionError") /\ hist' = hist
       ELSE /\ hist' = [hist EXCEPT !.init_passes = @ + 1,
                                    !.init_samples = got * args.batch_size,
                                    !.init_labels = args.y_condition]
            /\ pc' = "epoch_loop" /\ err' = err
    /\ UNCHANGED <<args, epoch, iteration, batch_idx, last_epoch, optimizer_lr,
                   loaded, saved, files, output, eval_output, eval_seen>>
    /\ UNCHANGED <<dirVars, lossVars>>

----------------------------------------------------------------------------
(* trainer.run(train_loader, epochs): the engine's loop and its handlers *)

\* Engine: `while state.epoch < state.max_epochs: state.epoch += 1; ...`,
\* COMPLETED once the loop ends
epoch_started ==
    /\ pc = "epoch_loop"
    /\ IF epoch < args.epochs
       THEN /\ epoch' = epoch + 1
            /\ batch_idx' = 0
            /\ hist' = [hist EXCEPT !.epochs_run = Append(@, epoch + 1)]
            /\ pc' = "iteration"
       ELSE /\ pc' = "done"
            /\ UNCHANGED <<epoch, batch_idx, hist>>
    /\ UNCHANGED <<args, err, iteration, last_epoch, optimizer_lr, loaded, saved,
                   files, output, eval_output, eval_seen>>
    /\ UNCHANGED <<dirVars, lossVars>>

Count(seq, v) == Cardinality({i \in 1..Len(seq) : seq[i] = v})

\* One training iteration: state.iteration += 1, step(engine, batch), then the
\* ITERATION_COMPLETED handlers (the attached RunningAverage metrics read the
\* output); EPOCH_COMPLETED fires after the last batch of the epoch
train_iteration ==
    /\ pc = "iteration"
    /\ batch_idx < len_train_loader(args)
    /\ LET r == step(args, args.batch_size)
           e == metric_error(trainer_metrics(args), r.out, FALSE)
       IN  /\ iteration' = iteration + 1
           /\ batch_idx' = batch_idx + 1
           /\ output' = r.out
           /\ hist' = [hist EXCEPT
                  !.train_steps = @ + 1,
                  !.step_trace = r.trace,
                  !.opt_steps = @ + Count(r.trace, "optimizer.step"),
                  !.backward = @ + Count(r.trace, "backward"),
                  !.lr_at_step = optimizer_lr,
                  !.first_iter = IF hist.train_steps = 0
                                 THEN <<epoch, iteration + 1>> ELSE @]
           /\ IF e # "" THEN Fail(e)
              ELSE /\ err' = err
                   /\ pc' = IF batch_idx + 1 = len_train_loader(args)
                            THEN "checkpoint" ELSE "iteration"
    /\ UNCHANGED <<args, epoch, last_epoch, optimizer_lr, loaded, saved, files,
                   eval_output, eval_seen>>
    /\ UNCHANGED <<dirVars, lossVars>>

Checkpoint(e) == [epoch |-> e, holds |-> to_save]

\* EPOCH_COMPLETED, first handler: checkpoint_handler. With n_saved files kept
\* already, the oldest is removed; the new file is written
checkpoint_handler ==
    /\ pc = "checkpoint"
    /\ IF Len(saved) >= n_saved
       THEN /\ saved' = Append(Tail(saved), epoch)
            /\ files' = (files \ {Checkpoint(Head(saved))}) \cup {Checkpoint(epoch)}
       ELSE /\ saved' = Append(saved, epoch)
            /\ files' = files \cup {Checkpoint(epoch)}
    /\ hist' = [hist EXCEPT !.ckpt_saves = @ + 1]
    /\ pc' = "evaluate"
    /\ UNCHANGED <<args, err, epoch, iteration, batch_idx, last_epoch, optimizer_lr,
                   loaded, output, eval_output, eval_seen>>
    /\ UNCHANGED <<dirVars, lossVars>>

\* EPOCH_COMPLETED, evaluate: evaluator.run(test_loader) starts a pass
evaluate_run ==
    /\ pc = "evaluate"
    /\ eval_seen' = 0
    /\ hist' = [hist EXCEPT !.eval_runs = @ + 1, !.opt_at_eval = hist.opt_steps]
    /\ pc' = "eval_iteration"
    /\ UNCHANGED <<args, err, epoch, iteration, batch_idx, last_epoch, optimizer_lr,
                   loaded, saved, files, output, eval_output>>
    /\ UNCHANGED <<dirVars, lossVars>>

\* One evaluator iteration over DataLoader(test_dataset, eval_batch_size,
\* drop_last=False): eval_step, then the attached Loss metrics read the output
eval_iteration ==
    /\ pc = "eval_iteration"
    /\ eval_seen < args.test_size
    /\ LET bsz == Min(args.eval_batch_size, args.test_size - eval_seen)
           r == eval_step(args, bsz)
           e == metric_error(evaluator_metrics(args), r.out, TRUE)
       IN  /\ eval_output' = r.out
           /\ eval_seen' = eval_seen + bsz
           /\ hist' = [hist EXCEPT
                  !.eval_steps = @ + 1,
                  !.eval_trace = r.trace,
                  !.opt_steps = @ + Count(r.trace, "optimizer.step"),
                  !.backward = @ + Count(r.trace, "backward")]
           /\ IF e # "" THEN Fail(e)
              ELSE /\ err' = err
                   /\ pc' = IF eval_seen + bsz = args.test_size
                            THEN "scheduler" ELSE "eval_iteration"
    /\ UNCHANGED <<args, epoch, iteration, batch_idx, last_epoch, optimizer_lr,
                   loaded, saved, files, output>>
    /\ UNCHANGED <<dirVars, lossVars>>

\* evaluate, after evaluator.run returned: scheduler.step() sets the learning
\* rate to base_lr * lr_lambda(last_epoch); the validation line is printed
scheduler_step ==
    /\ pc = "scheduler"
    /\ last_epoch' = last_epoch + 1
    /\ optimizer_lr' = lr_lambda(last_epoch + 1, args.warmup)
    /\ hist' = [hist EXCEPT
           !.sched_steps = @ + 1,
           !.sched_at = Append(@, [epoch |-> epoch, eval_runs |-> hist.eval_runs,
                                   eval_seen |-> eval_seen,
                                   ckpt_saves |-> hist.ckpt_saves,
                                   train_steps |-> hist.train_steps])]
    /\ pc' = "print_times"
    /\ UNCHANGED <<args, err, epoch, iteration, batch_idx, loaded, saved, files,
                   output, eval_output, eval_seen>>
    /\ UNCHANGED <<dirVars, lossVars>>

\* EPOCH_COMPLETED, last handler: print_times; the engine goes on to the next epoch
print_times ==
    /\ pc = "print_times"
    /\ pc' = "epoch_loop"
    /\ UNCHANGED <<args, err, epoch, iteration, batch_idx, last_epoch, optimizer_lr,
                   loaded, saved, files, output, eval_output, eval_seen, hist>>
    /\ UNCHANGED <<dirVars, lossVars>>

Next ==
    \/ main_setup
    \/ resume_training
    \/ init
    \/ epoch_started
    \/ train_iteration
    \/ checkpoint_handler
    \/ evaluate_run
    \/ eval_iteration
    \/ scheduler_step
    \/ print_times

Spec == Init /\ [][Next]_vars

SpecSched == InitSched /\ [][Next]_vars

SpecStep == InitStep /\ [][Next]_vars

----------------------------------------------------------------------------
(* Properties of the training run *)

\* The epoch a --saved_model path was written for, read off the way the path
\* was built
NamedEpoch ==
    IF args.saved_model = NoPath THEN 0
    ELSE CHOOSE E \in 0..(MaxResume + 1) :
            args.saved_model \in {CheckpointName(7, E), DottedDirName(E)}

\* C1: after n completed epochs (n checkpoint saves) the checkpoint files in
\* output_dir are exactly those of the min(2, n) most recently completed
\* epochs, each holding the model and the optimizer state; a checkpoint has
\* been saved for every completed epoch.
C1_CheckpointRotation ==
    LET n == hist.ckpt_saves
        keep == Min(2, n)
    IN  /\ n <= Len(hist.epochs_run)
        /\ files = {[epoch |-> hist.epochs_run[i], holds |-> {"model", "optimizer"}]
                        : i \in (n - keep + 1)..n}
        /\ Cardinality(files) = keep
        /\ pc \in {"evaluate", "eval_iteration", "scheduler", "print_times",
                   "epoch_loop", "done"} => n = Len(hist.epochs_run)
        /\ pc \in {"iteration", "checkpoint"} => n = Len(hist.epochs_run) - 1

\* Three epochs are complete: the first epoch's checkpoint has been rotated out
C1_Witness ==
    /\ pc = "done"
    /\ hist.ckpt_saves = 3
    /\ {f.epoch : f \in files} = {2, 3}

\* C7: a run resumed from a checkpoint named ..._E starts its first training
\* iteration at epoch E + 1 and iteration E * len(train_loader) + 1, and when
\* it ends it has run exactly the epochs E + 1 .. epochs (none when
\* E >= epochs); without --saved_model E is 0. The optimizer state is restored
\* exactly when both --saved_model and --saved_optimizer are given.
C7_Resume ==
    LET E == NamedEpoch
        L == len_train_loader(args)
    IN  /\ hist.train_steps > 0 => hist.first_iter = <<E + 1, E * L + 1>>
        /\ pc = "done" =>
              /\ hist.epochs_run = [i \in 1..(IF args.epochs > E THEN args.epochs - E ELSE 0)
                                        |-> E + i]
              /\ hist.train_steps = Len(hist.epochs_run) * L
              /\ iteration = E * L + hist.train_steps
        /\ pc # "main" =>
              loaded.optimizer = (args.saved_model # NoPath /\ args.saved_optimizer)

\* A run resumed at epoch 2 of 3 has finished after exactly one epoch
C7_Witness ==
    /\ pc = "done"
    /\ args.saved_model = CheckpointName(7, 2)
    /\ args.epochs = 3
    /\ hist.epochs_run = <<3>>

AfterInit == pc \notin {"main", "started_resume", "started_init"} /\ err # "ValueError"

----------------------------------------------------------------------------
(* Properties of the schedule *)

\* min(1, k / warmup) for the run's --warmup, as a rational in lowest terms
WarmupFraction(k) ==
    LET w == args.warmup IN
    IF k * w[2] >= w[1] THEN <<1, 1>> ELSE Rat(k * w[2], w[1])

\* ceil(test_size / eval_batch_size): batches of one pass over the test set
EvalBatches == (args.test_size + args.eval_batch_size - 1) \div args.eval_batch_size

\* C3: the multiplier the scheduler applies rises linearly from zero: with no
\* optimizer state restored it is min(1, k / warmup) after k scheduler steps,
\* so 0 at the start of training and 1 once `warmup` epochs have passed.
C3_WarmupFromZero ==
    (pc # "main" /\ ~loaded.optimizer) => optimizer_lr = WarmupFraction(hist.sched_steps)

\* C9 as stated: after n completed epochs of the current run (n scheduler
\* steps) the multiplier in effect is min(1, (n + 1) / warmup), in every run.
C9_AsStated ==
    /\ pc # "main" => optimizer_lr = WarmupFraction(hist.sched_steps + 1)
    /\ (pc \in {"iteration", "checkpoint"} /\ batch_idx > 0) =>
          hist.lr_at_step = WarmupFraction(Len(hist.epochs_run))

\* C9, amended: on every completed epoch the evaluator makes exactly one pass
\* over the whole test set and the scheduler is stepped exactly once, after
\* that pass has finished and after that epoch's checkpoint was saved; after
\* n scheduler steps of the current run the multiplier in effect is
\* min(1, (n + 1) / warmup), whatever the epoch the run was resumed at,
\* except that before the first scheduler step of a run that restored the
\* optimizer state it is the learning rate stored in that state.
C9_EvalThenSchedule ==
    LET n == hist.sched_steps
        restored == loaded.optimizer /\ n = 0
    IN  /\ \A i \in 1..Len(hist.sched_at) :
              /\ hist.sched_at[i].epoch = hist.epochs_run[i]
              /\ hist.sched_at[i].eval_runs = i
              /\ hist.sched_at[i].eval_seen = args.test_size
              /\ hist.sched_at[i].ckpt_saves = i
              /\ hist.sched_at[i].train_steps = i * len_train_loader(args)
        /\ Len(hist.sched_at) = n
        /\ hist.eval_runs \in {n, n + 1}
        /\ pc \in {"print_times", "epoch_loop", "done"} =>
              /\ n = Len(hist.epochs_run)
              /\ hist.eval_runs = n
              /\ hist.eval_steps = n * EvalBatches
        /\ pc \in {"iteration", "checkpoint", "evaluate"} =>
              /\ n = Len(hist.epochs_run) - 1
              /\ hist.eval_runs = n
        /\ pc # "main" =>
              /\ last_epoch = n
              /\ optimizer_lr = (IF restored THEN args.saved_lr ELSE WarmupFraction(n + 1))
        /\ (pc \in {"iteration", "checkpoint"} /\ batch_idx > 0) =>
              hist.lr_at_step =
                  (IF loaded.optimizer /\ Len(hist.epochs_run) = 1 THEN args.saved_lr
                   ELSE WarmupFraction(Len(hist.epochs_run)))

\* A run resumed at epoch 2 without optimizer state trains its first epoch
\* at 1/warmup and has stepped the scheduler once, after a two-batch pass
C9_Witness ==
    /\ args.saved_model = CheckpointName(7, 2)
    /\ ~args.saved_optimizer
    /\ args.warmup = <<3, 1>>
    /\ args.test_size = 2 /\ args.eval_batch_size = 1
    /\ pc = "print_times"
    /\ hist.sched_steps = 1
    /\ hist.lr_at_step = <<1, 3>>
    /\ optimizer_lr = <<2, 3>>

----------------------------------------------------------------------------
(* Properties of the training and evaluation steps *)

Index(seq, v) == CHOOSE i \in 1..Len(seq) : seq[i] = v

\* C6: every training step performs zero_grad, the model pass, the loss
\* computation, backward and optimizer.step in this order, each exactly once;
\* clip_grad_value_ and clip_grad_norm_ happen only between backward and
\* optimizer.step, value before norm, each iff its threshold is > 0.
C6_StepOrder ==
    LET t == hist.step_trace
        once == <<"optimizer.zero_grad", "model", "loss", "backward", "optimizer.step">>
    IN  /\ hist.opt_steps = hist.train_steps
        /\ hist.backward = hist.train_steps
        /\ hist.train_steps > 0 =>
              /\ \A i \in 1..Len(once) : Count(t, once[i]) = 1
              /\ \A i \in 1..(Len(once) - 1) : Index(t, once[i]) < Index(t, once[i + 1])
              /\ Count(t, "clip_grad_value_") = (IF args.max_grad_clip > 0 THEN 1 ELSE 0)
              /\ Count(t, "clip_grad_norm_") = (IF args.max_grad_norm > 0 THEN 1 ELSE 0)
              /\ \A i \in 1..Len(t) :
                    t[i] \in {"clip_grad_value_", "clip_grad_norm_"} =>
                        Index(t, "backward") < i /\ i < Index(t, "optimizer.step")
              /\ (Count(t, "clip_grad_value_") = 1 /\ Count(t, "clip_grad_norm_") = 1) =>
                    Index(t, "clip_grad_value_") < Index(t, "clip_grad_norm_")

\* A step has run with value clipping switched off by 0 and norm clipping on
C6_Witness ==
    /\ hist.train_steps > 0
    /\ args.max_grad_clip = 0
    /\ args.max_grad_norm > 0
    /\ Count(hist.step_trace, "clip_grad_norm_") = 1

\* C10: every training and evaluation step returns total_loss; the metrics
\* attached to each engine read only keys of its step's output, so no read
\* fails; nll is tracked iff y_condition, and then
\* total_loss = nll + y_weight * loss_classes, otherwise total_loss is the
\* energy loss and there is no nll key; the evaluator's total_loss has a
\* leading dimension; an evaluation step makes no backward pass and no
\* optimizer step.
C10_OutputsMatchMetrics ==
    /\ err \notin {"KeyError", "IndexError"}
    /\ ("nll" \in trainer_metrics(args)) = args.y_condition
    /\ ("nll" \in evaluator_metrics(args)) = args.y_condition
    /\ \A o \in {output, eval_output} :
          o # None =>
              /\ "total_loss" \in DOMAIN o
              /\ ("nll" \in DOMAIN o) = args.y_condition
              /\ args.y_condition =>
                    o.total_loss.val = o.nll.val + args.y_weight * o.loss_classes.val
              /\ ~args.y_condition =>
                    o.total_loss = o.loss_energy /\ o.total_loss.val = args.energy_val
    /\ output # None => trainer_metrics(args) \subseteq DOMAIN output
    /\ eval_output # None =>
          /\ evaluator_metrics(args) \subseteq DOMAIN eval_output
          /\ \A k \in evaluator_metrics(args) : Len(eval_output[k].shape) >= 1
          /\ Count(hist.eval_trace, "backward") = 0
          /\ Count(hist.eval_trace, "optimizer.step") = 0
    /\ pc \in {"eval_iteration", "scheduler"} =>
          /\ hist.opt_steps = hist.opt_at_eval
          /\ hist.opt_steps = hist.train_steps
          /\ hist.backward = hist.train_steps

\* An evaluation pass has finished without class conditioning
C10_Witness ==
    /\ pc = "scheduler"
    /\ ~args.y_condition
    /\ eval_output # None
    /\ eval_output.total_loss.shape = <<1>>
    /\ output.total_loss.shape = <<>>

----------------------------------------------------------------------------
(* __main__: the output directory check, lines 521-540 *)

\* main() has not been entered
TrainIdle ==
    /\ args = DefaultArgs /\ pc = "idle" /\ err = "" /\ epoch = 0 /\ iteration = 0
    /\ batch_idx = 0 /\ last_epoch = -1 /\ optimizer_lr = One
    /\ loaded = [model |-> FALSE, optimizer |-> FALSE] /\ saved = <<>> /\ files = {}
    /\ output = None /\ eval_output = None /\ eval_seen = 0 /\ hist = NoHist

HParams == <<"hparams.json", 0>>

\* names a directory entry can have
EntryNames == {HParams} \cup {<<"file", i>> : i \in 1..MaxEntries}

Absent == [kind |-> "absent", entries |-> {}]

Dir(entries) == [kind |-> "dir", entries |-> entries]

\* a regular file at the output_dir path
File == [kind |-> "file", entries |-> {}]

\* what can be at the output_dir path when the program starts
PathStates == {Absent, File} \cup {Dir(S) : S \in SUBSET EntryNames}

InitDir ==
    /\ dpc = "makedirs"
    /\ fresh \in BOOLEAN
    /\ fs0 \in PathStates
    /\ fs = fs0
    /\ raised = ""
    /\ checked = <<>>
    /\ TrainIdle /\ LossIdle

\* try: os.makedirs(args.output_dir)
makedirs ==
    /\ dpc = "makedirs"
    /\ IF fs.kind = "absent"
       THEN fs' = Dir({}) /\ dpc' = "write_hparams"
       ELSE fs' = fs /\ dpc' = "except"
    /\ UNCHANGED <<fresh, fs0, raised, checked>>
    /\ UNCHANGED <<trainVars, lossVars>>

\* except FileExistsError: if args.fresh: shutil.rmtree(args.output_dir);
\* rmtree of a path that is no directory raises NotADirectoryError
rmtree ==
    /\ dpc = "except"
    /\ IF ~fresh THEN /\ dpc' = "check" /\ UNCHANGED <<fs, raised>>
       ELSE IF fs.kind = "dir" THEN /\ fs' = Absent /\ dpc' = "fresh_makedirs"
                                    /\ UNCHANGED raised
       ELSE /\ raised' = "NotADirectoryError" /\ dpc' = "raised" /\ UNCHANGED fs
    /\ UNCHANGED <<fresh, fs0, checked>>
    /\ UNCHANGED <<trainVars, lossVars>>

\* os.makedirs(args.output_dir) after the rmtree
fresh_makedirs ==
    /\ dpc = "fresh_makedirs"
    /\ fs' = Dir({})
    /\ dpc' = "check"
    /\ UNCHANGED <<fresh, fs0, raised, checked>>
    /\ UNCHANGED <<trainVars, lossVars>>

output_dir_rejected_isdir_only(f) == f.kind # "dir"

\* (not os.path.isdir(output_dir)) or (len(os.listdir(output_dir)) > 0)
output_dir_rejected(f) == f.kind # "dir" \/ Cardinality(f.entries) > 0

\* the check that ends the except block
check_output_dir ==
    /\ dpc = "check"
    /\ checked' = fs
    /\ IF output_dir_rejected(fs)
       THEN raised' = "FileExistsError" /\ dpc' = "raised"
       ELSE raised' = raised /\ dpc' = "write_hparams"
    /\ UNCHANGED <<fresh, fs, fs0>>
    /\ UNCHANGED <<trainVars, lossVars>>

\* with open(os.path.join(args.output_dir, "hparams.json"), "w"): json.dump
write_hparams ==
    /\ dpc = "write_hparams"
    /\ fs' = Dir(fs.entries \cup {HParams})
    /\ dpc' = "main"
    /\ UNCHANGED <<fresh, fs0, raised, checked>>
    /\ UNCHANGED <<trainVars, lossVars>>

\* main(**kwargs)
call_main ==
    /\ dpc = "main"
    /\ dpc' = "running"
    /\ UNCHANGED <<fresh, fs, fs0, raised, checked>>
    /\ UNCHANGED <<trainVars, lossVars>>

NextDir ==
    \/ makedirs
    \/ rmtree
    \/ fresh_makedirs
    \/ check_output_dir
    \/ write_hparams
    \/ call_main

SpecDir == InitDir /\ [][NextDir]_vars

\* C2: hparams.json is written and main() entered only with output_dir an
\* empty directory at that moment, which happens exactly when the path was
\* absent, an empty directory, or a directory and --fresh was passed; without
\* --fresh a non-empty directory or a non-directory path ends the program
\* with FileExistsError, nothing written, main() not entered and the path's
\* contents as they were.
C2_OutputDirValidation ==
    LET accepted == \/ fs0.kind = "absent"
                    \/ fs0.kind = "dir" /\ fs0.entries = {}
                    \/ fs0.kind = "dir" /\ fresh
        blocked == ~fresh /\ (fs0.kind = "file" \/ (fs0.kind = "dir" /\ fs0.entries # {}))
    IN  /\ dpc = "write_hparams" => accepted /\ fs = Dir({})
        /\ dpc \in {"main", "running"} => accepted /\ fs = Dir({HParams})
        /\ checked # <<>> /\ dpc # "raised" => checked = Dir({})
        /\ dpc = "raised" => ~accepted /\ fs = fs0
        /\ raised = "FileExistsError" => blocked
        /\ blocked =>
              /\ dpc \in {"makedirs", "except", "check", "raised"}
              /\ fs = fs0
              /\ dpc = "raised" => raised = "FileExistsError"
        /\ accepted => dpc # "raised"

\* A non-empty directory without --fresh has been refused
C2_Witness ==
    /\ dpc = "raised"
    /\ raised = "FileExistsError"
    /\ fs0.kind = "dir"
    /\ Cardinality(fs0.entries) = 2
    /\ ~fresh

----------------------------------------------------------------------------
(* compute_loss_energy, lines 74-128 *)
(* A sample has one feature (d = 1) whose value is a whole multiple n of       *)
(* c = sqrt(2 ln 4), and a bandwidth is 1 or 2, so that every kernel value     *)
(* exp(-(c n - c m)^2 / (2 sigma)) = 4^(-(n - m)^2 / sigma) is an exact        *)
(* rational. Exponents are kept in units of ln 4.                              *)

RAdd(a, b) ==
    LET l == (a[2] * b[2]) \div GCD(a[2], b[2]) IN
    Rat(a[1] * (l \div a[2]) + b[1] * (l \div b[2]), l)

RMul(a, b) == Rat(a[1] * b[1], a[2] * b[2])

\* F(1) + ... + F(k)
RECURSIVE RSum(_, _)
RSum(F(_), k) == IF k = 0 THEN <<0, 1>> ELSE RAdd(RSum(F, k - 1), F(k))

RECURSIVE Pow2(_)
Pow2(n) == IF n = 0 THEN 1 ELSE 2 * Pow2(n - 1)

\* the 1e-5 under the square root, as 1 / EpsDen
EpsDen == 100000

\* the clip bound 1e4 in units of ln 4, rounded towards zero
ClipUnits == 7213

makeScaleMatrix_num_gen_only(num_gen, num_orig) ==
    [i \in 1..(num_gen + num_orig) |->
        IF i <= num_gen THEN Rat(1, num_gen) ELSE Rat(-1, num_gen)]

\* first N entries 1/N, next M entries -1/M
makeScaleMatrix(num_gen, num_orig) ==
    [i \in 1..(num_gen + num_orig) |->
        IF i <= num_gen THEN Rat(1, num_gen) ELSE Rat(-1, num_orig)]

\* torch.clip(exponent, -1e4, 1e4)
clip(e) == IF e < -ClipUnits THEN -ClipUnits ELSE IF e > ClipUnits THEN ClipUnits ELSE e

\* exponent = XX - 0.5 * X2 - 0.5 * X2^T, divided by sqrt(d) = 1 and clipped;
\* in units of ln 4 that is 2 Xi Xj - Xi^2 - Xj^2
exponent(X, i, j) == clip(2 * (X[i] * X[j]) - X[i] * X[i] - X[j] * X[j])

\* torch.exp(1.0 / sigma[i] * exponent) for an exponent <= 0
kernel_val(e, sg) == <<1, Pow2((2 * (-e)) \div sg)>>

\* torch.sqrt(v + 1e-5): NaN for a negative radicand, else the root, which
\* the value v it is the root of stands for
sqrt_eps(v) ==
    IF v[1] < -(v[2] \div EpsDen) THEN [nan |-> TRUE, root_of_eps_plus |-> <<0, 1>>]
    ELSE [nan |-> FALSE, root_of_eps_plus |-> v]

Reductions == {"mean", "sum", "none"}

compute_loss_energy(xs, gen, sg, red) ==
    LET X == gen \o xs
        n == Len(X)
        s == makeScaleMatrix(Len(gen), Len(xs))
        \* S = s s^T, entry by entry
        S(i, j) == RMul(s[i], s[j])
        \* torch.sum(S * kernel_val, axis=1) for bandwidth sg[k], row i
        row(i, k) == RSum(LAMBDA j : RMul(S(i, j), kernel_val(exponent(X, i, j), sg[k])), n)
        \* loss += ..., over the bandwidths
        loss == [i \in 1..n |-> RSum(LAMBDA k : row(i, k), Len(sg))]
        total == RSum(LAMBDA i : loss[i], n)
    IN  IF red = "mean"
        THEN [raised |-> "", shape |-> <<>>, vals |-> <<sqrt_eps(RMul(total, <<1, n>>))>>]
        ELSE IF red = "sum"
        THEN [raised |-> "", shape |-> <<>>, vals |-> <<sqrt_eps(total)>>]
        ELSE IF red = "none"
        THEN [raised |-> "", shape |-> <<n>>, vals |-> [i \in 1..n |-> sqrt_eps(loss[i])]]
        ELSE [raised |-> "ValueError", shape |-> <<>>, vals |-> <<>>]

\* non-empty batches of at most MaxBatch samples
Batches == UNION {[1..k -> 0..MaxCoord] : k \in 1..MaxBatch}

\* non-empty bandwidth lists
Sigmas == {<<1>>, <<2>>, <<2, 1>>}

InitLoss ==
    /\ lpc = "call"
    /\ x \in Batches
    /\ gen_x \in Batches
    /\ sigma \in Sigmas
    /\ reduction \in Reductions \cup {"max"}
    /\ loss_out = <<>>
    /\ TrainIdle /\ DirIdle

\* final_loss = compute_loss_energy(x, gen_x, sigma, reduction)
call_compute_loss_energy ==
    /\ lpc = "call"
    /\ LET r == compute_loss_energy(x, gen_x, sigma, reduction) IN
       /\ loss_out' = r
       /\ lpc' = IF r.raised = "" THEN "returned" ELSE "raised"
    /\ UNCHANGED <<x, gen_x, sigma, reduction>>
    /\ UNCHANGED <<trainVars, dirVars>>

NextLoss == call_compute_loss_energy

SpecLoss == InitLoss /\ [][NextLoss]_vars

\* C4: for every accepted reduction the call returns, and the value under the
\* final square root is >= -1e-5 in every component, so no component of the
\* returned loss is NaN; any other reduction raises ValueError.
C4_NonNegative ==
    lpc # "call" =>
        IF reduction \in Reductions
        THEN /\ lpc = "returned"
             /\ \A i \in 1..Len(loss_out.vals) : ~loss_out.vals[i].nan
        ELSE lpc = "raised" /\ loss_out.raised = "ValueError"

Rotate(seq, k) == [i \in 1..Len(seq) |-> seq[((i + k - 1) % Len(seq)) + 1]]

\* C5: with the two batches swapped the scale vector is the negated,
\* row-permuted scale vector, and the loss is the same for 'mean' and 'sum',
\* and the same row by row, up to that permutation, for 'none'.
C5_SwapSymmetry ==
    LET N == Len(gen_x)
        M == Len(x)
        s == makeScaleMatrix(N, M)
        t == makeScaleMatrix(M, N)
        swapped == compute_loss_energy(gen_x, x, sigma, reduction)
    IN  lpc # "call" =>
            /\ \A i \in 1..(N + M) :
                  t[i] = <<-(Rotate(s, N)[i][1]), Rotate(s, N)[i][2]>>
            /\ swapped.raised = loss_out.raised
            /\ swapped.shape = loss_out.shape
            /\ reduction \in {"mean", "sum"} => swapped.vals = loss_out.vals
            /\ reduction = "none" => swapped.vals = Rotate(loss_out.vals, N)

\* A mean loss of two different batches of different sizes has been returned
C5_Witness ==
    /\ lpc = "returned"
    /\ reduction = "mean"
    /\ Len(gen_x) = 2 /\ Len(x) = 1
    /\ gen_x = <<0, 1>> /\ x = <<1>>
    /\ loss_out.vals[1].root_of_eps_plus[1] > 0

====
